---- MODULE Spec2Model ----
(***************************************************************************)
(* peewee_migrate/auto.py: the schema differ.  diff_many compares two      *)
(* lists of models (models1 = the new schema, models2 = the old one) and   *)
(* returns the list of migration operations; diff_one does the same for    *)
(* the two versions of one table.  The operations are strings in the       *)
(* code; here each is the record of what the string is formatted from.     *)
(*                                                                         *)
(* Python iterates a set of strings in an order that depends on the hash   *)
(* seed of the process, so every `for x in set(...)` of the code is a      *)
(* choice among all orders of that set.                                    *)
(***************************************************************************)
EXTENDS Integers, Sequences, FiniteSets, TLC

\* Literal column defaults are drawn from 1..MaxDefault.
MaxDefault == 1
\* diff_many is called up to MaxRuns times on the same pair of schemas.
MaxRuns == 2

\* Python's None, where an attribute holds a string or None.
NONE == "<None>"

(***************************************************************************)
(* Field classes.  A class is known by its name; ClassModule is its        *)
(* __module__ and ClassMro its mro(), most specific first.  The peewee     *)
(* classes are the library's; AgeField and DuckField are application       *)
(* classes: a subclass of IntegerField, and a class with no peewee         *)
(* ancestor.                                                               *)
(***************************************************************************)
PeeweeClasses == {"Field", "AutoField", "CharField", "IntegerField", "ForeignKeyField"}

ClassModule(cls) ==
    IF cls \in PeeweeClasses THEN "peewee"
    ELSE IF cls = "object" THEN "builtins"
    ELSE "app.fields"

ClassMro(cls) ==
    CASE cls = "Field" -> <<"Field", "object">>
      [] cls = "AutoField" -> <<"AutoField", "IntegerField", "Field", "object">>
      [] cls = "CharField" -> <<"CharField", "Field", "object">>
      [] cls = "IntegerField" -> <<"IntegerField", "Field", "object">>
      [] cls = "ForeignKeyField" -> <<"ForeignKeyField", "Field", "object">>
      [] cls = "AgeField" -> <<"AgeField", "IntegerField", "Field", "object">>
      [] cls = "DuckField" -> <<"DuckField", "object">>
      [] OTHER -> <<cls>>

PW_MODULES == {"playhouse.postgres_ext", "playhouse.fields", "peewee"}

\* find_field_type: the class itself when its module is one of PW_MODULES,
\* else the first class of its mro whose module is; when the loop finds none
\* the function falls through to `return ftype`.
find_field_type(field) ==
    LET ftype == field.cls
        mro == ClassMro(ftype)
        hits == {i \in 1..Len(mro) : ClassModule(mro[i]) \in PW_MODULES}
    IN  IF ClassModule(ftype) \notin PW_MODULES /\ hits # {}
        THEN mro[CHOOSE i \in hits : \A j \in hits : i <= j]
        ELSE ftype

\* fk_to_params: on_delete / on_update, quoted, when they are not None.
fk_to_params(field) ==
    (IF field.on_delete # NONE
     THEN {<<"on_delete", <<"'", field.on_delete, "'">>>>} ELSE {})
    \cup
    (IF field.on_update # NONE
     THEN {<<"on_update", <<"'", field.on_update, "'">>>>} ELSE {})

\* FIELD_TO_PARAMS.get(ftype, lambda f: {})(field), as the set of the dict's
\* items.  The lookup is by the exact class.  (The DecimalField and
\* DateTimeField entries are not modelled: no field of these classes is drawn.)
FIELD_TO_PARAMS(ftype, field) ==
    CASE ftype = "CharField" -> {<<"max_length", field.max_length>>}
      [] ftype = "ForeignKeyField" -> fk_to_params(field)
      [] OTHER -> {}

\* A default is None, a hashable literal, or a callable.
IsLiteralDefault(field) == field.default.kind = "literal"

\* params.pop(key, None) on a set of items: the value, and what is left.
HasKey(items, key) == \E p \in items : p[1] = key
ValueOf(items, key) == (CHOOSE p \in items : p[1] = key)[2]
Without(items, key) == {p \in items : p[1] # key}

\* field_to_params: the type's extra parameters, the literal default, and
\* index = (index and not unique, unique).  A later key overwrites an
\* earlier one, as a dict assignment does.
field_to_params(field) ==
    LET ftype == find_field_type(field)
        params == FIELD_TO_PARAMS(ftype, field)
        withDefault ==
            IF IsLiteralDefault(field)
            THEN Without(params, "default") \cup {<<"default", field.default.value>>}
            ELSE params
        withIndex ==
            Without(withDefault, "index")
                \cup {<<"index", <<field.index /\ ~field.unique, field.unique>>>>}
    IN  Without(withIndex, "backref")

\* compare_fields with `params2["null"] = field2.null` left out.
compare_fields_null_unset(field1, field2) ==
    LET ftype1 == find_field_type(field1)
        ftype2 == find_field_type(field2)
        params1 == Without(field_to_params(field1), "null") \cup {<<"null", field1.null>>}
        params2 == field_to_params(field2)
    IN  IF ftype1 # ftype2 THEN {<<"cls", TRUE>>} ELSE params1 \ params2

\* compare_fields(field1, field2): {"cls": True} when the canonical types
\* differ, else the items of field1's params (with null) that are not items
\* of field2's.
compare_fields(field1, field2) ==
    LET ftype1 == find_field_type(field1)
        ftype2 == find_field_type(field2)
        params1 == Without(field_to_params(field1), "null") \cup {<<"null", field1.null>>}
        params2 == Without(field_to_params(field2), "null") \cup {<<"null", field2.null>>}
    IN  IF ftype1 # ftype2 THEN {<<"cls", TRUE>>} ELSE params1 \ params2

(***************************************************************************)
(* Sequences.                                                              *)
(***************************************************************************)
RECURSIVE Flatten(_)
Flatten(ss) == IF ss = <<>> THEN <<>> ELSE Head(ss) \o Flatten(Tail(ss))

Reversed(s) == [i \in 1..Len(s) |-> s[Len(s) + 1 - i]]

\* The orders in which a `for` loop can run over the set S.
Orders(S) ==
    {o \in [1..Cardinality(S) -> S] : \A i, j \in 1..Cardinality(S) : o[i] = o[j] => i = j}

IsInstance(field, cls) == \E i \in 1..Len(ClassMro(field.cls)) : ClassMro(field.cls)[i] = cls

(***************************************************************************)
(* A model is [name, fields, indexes]: its table name, _meta.fields as a   *)
(* function from column names to fields, and _meta.indexes as a set of     *)
(* <<columns, unique>>.  Fields are declared in the order of ColOrder.     *)
(***************************************************************************)
ColOrder == <<"id", "age", "email", "name", "ref">>

sorted_fields(model) == SelectSeq(ColOrder, LAMBDA c : c \in DOMAIN model.fields)

\* Column(field): what field_to_code renders a field from.
Column(model, name) ==
    LET field == model.fields[name]
        field_class == find_field_type(field)
    IN  [name |-> name,
         field_class |-> field_class,
         null |-> field.null,
         index |-> field.index,
         unique |-> field.unique,
         default |-> IF field.default.kind = "literal"
                     THEN <<"repr", field.default.value>> ELSE <<>>,
         extra_parameters |->
             IF field_class \in {"CharField", "ForeignKeyField"}
             THEN FIELD_TO_PARAMS(field_class, field) ELSE {},
         rel_model |->
             IF IsInstance(field, "ForeignKeyField")
             THEN (IF field.rel = model.name THEN <<"'self'">>
                   ELSE <<"migrator.orm", field.rel>>)
             ELSE <<>>]

field_to_code(model, name) == Column(model, name)

\* The operations.  names: the column names the call lists; fields: the
\* rendered columns; unique: add_index's flag.
Op(op, table, names, fields, unique, indexes) ==
    [op |-> op, table |-> table, names |-> names, fields |-> fields,
     unique |-> unique, indexes |-> indexes]

create_fields(model_cls, names) ==
    Op("add_fields", model_cls.name, <<>>,
       [i \in 1..Len(names) |-> field_to_code(model_cls, names[i])], FALSE, {})

drop_fields(model_cls, names) ==
    Op("remove_fields", model_cls.name, names, <<>>, FALSE, {})

change_fields(model_cls, names) ==
    Op("change_fields", model_cls.name, <<>>,
       [i \in 1..Len(names) |-> field_to_code(model_cls, names[i])], FALSE, {})

change_not_null(model_cls, name, null) ==
    Op(IF null THEN "drop_not_null" ELSE "add_not_null",
       model_cls.name, <<name>>, <<>>, FALSE, {})

add_index(model_cls, name, unique) ==
    Op("add_index", model_cls.name, name, <<>>, unique, {})

drop_index(model_cls, name) ==
    Op("drop_index", model_cls.name, name, <<>>, FALSE, {})

model_to_code(model_cls) ==
    LET cols == SelectSeq(sorted_fields(model_cls),
                    LAMBDA c : ~(IsInstance(model_cls.fields[c], "PrimaryKeyField")
                                 /\ c = "id"))
    IN  [fields |-> [i \in 1..Len(cols) |-> field_to_code(model_cls, cols[i])],
         indexes |-> model_cls.indexes]

create_model(model_cls) ==
    Op("create_model", model_cls.name, <<>>,
       model_to_code(model_cls).fields, FALSE, model_to_code(model_cls).indexes)

remove_model(model_cls) ==
    Op("remove_model", model_cls.name, <<>>, <<>>, FALSE, {})

(***************************************************************************)
(* diff_one(model1, model2), for one choice of the orders in which its     *)
(* five loops over sets run: oAdd over names1, oDrop over names2, oBoth    *)
(* over the shared names, oIdxDrop and oIdxAdd over the index sets.        *)
(***************************************************************************)
AddedNames(model1, model2) == DOMAIN model1.fields \ DOMAIN model2.fields
DroppedNames(model1, model2) == DOMAIN model2.fields \ DOMAIN model1.fields
SharedNames(model1, model2) ==
    (DOMAIN model1.fields \ AddedNames(model1, model2)) \ DroppedNames(model1, model2)

IndexesToDrop(model1, model2) == model2.indexes \ model1.indexes
IndexesToAdd(model1, model2) == model1.indexes \ model2.indexes

\* isinstance(index[0], (list, tuple)) and len(index[0]) > 1
IsCompound(index) == Len(index[1]) > 1

\* Lines 172-178: the operations of one entry (name, index, unique) of indexes_.
IndexOps(model1, model2, name, index, unique) ==
    IF index = TRUE \/ unique = TRUE
    THEN (IF model2.fields[name].unique \/ model2.fields[name].index
          THEN <<drop_index(model1, <<name>>)>> ELSE <<>>)
         \o <<add_index(model1, <<name>>, unique)>>
    ELSE <<drop_index(model1, <<name>>)>>

\* Assemble with the index loop moved before the ChangeColumns block.
Assemble_indexes_early(addOps, dropOps, changeOps, nullOps, indexOps, idxDropOps, idxAddOps) ==
    addOps \o dropOps \o indexOps \o changeOps \o nullOps \o idxDropOps \o idxAddOps

\* Lines 166-194: the order in which diff_one appends what it collected.
Assemble(addOps, dropOps, changeOps, nullOps, indexOps, idxDropOps, idxAddOps) ==
    addOps \o dropOps \o changeOps \o nullOps \o indexOps \o idxDropOps \o idxAddOps

diff_one(model1, model2, oAdd, oDrop, oBoth, oIdxDrop, oIdxAdd) ==
    LET diffOf(name) == compare_fields(model1.fields[name], model2.fields[name])
        rest(name) == Without(Without(diffOf(name), "null"), "index")
        fields_ == SelectSeq(oBoth, LAMBDA n : rest(n) # {})
        nulls_ == SelectSeq(oBoth, LAMBDA n : HasKey(diffOf(n), "null"))
        indexes_ == SelectSeq(oBoth, LAMBDA n : HasKey(diffOf(n), "index"))
        drops == SelectSeq(oIdxDrop, IsCompound)
        adds == SelectSeq(oIdxAdd, IsCompound)
    IN  Assemble(
            IF oAdd # <<>> THEN <<create_fields(model1, oAdd)>> ELSE <<>>,
            IF oDrop # <<>> THEN <<drop_fields(model1, oDrop)>> ELSE <<>>,
            IF fields_ # <<>> THEN <<change_fields(model1, fields_)>> ELSE <<>>,
            [i \in 1..Len(nulls_) |->
                change_not_null(model1, nulls_[i], ValueOf(diffOf(nulls_[i]), "null"))],
            Flatten([i \in 1..Len(indexes_) |->
                IndexOps(model1, model2, indexes_[i],
                         ValueOf(diffOf(indexes_[i]), "index")[1],
                         ValueOf(diffOf(indexes_[i]), "index")[2])]),
            [i \in 1..Len(drops) |-> drop_index(model1, drops[i][1])],
            [i \in 1..Len(adds) |-> add_index(model1, adds[i][1], adds[i][2])])

(***************************************************************************)
(* pw.sort_models(models), the library function diff_many calls: a         *)
(* depth-first walk from every model, taken in the order of their names,   *)
(* which appends a model after the models its foreign keys refer to.  A    *)
(* model already seen is skipped, so a reference cycle ends the walk       *)
(* instead of failing.  A schema is a function from table names to models. *)
(***************************************************************************)
NameOrder == <<"customers", "orders", "users">>

\* _meta.refs: the tables the model's foreign keys refer to, in field order.
Refs(model) ==
    LET fks == SelectSeq(sorted_fields(model),
                   LAMBDA c : IsInstance(model.fields[c], "ForeignKeyField"))
    IN  [i \in 1..Len(fks) |-> model.fields[fks[i]].rel]

RECURSIVE dfs(_, _, _)
RECURSIVE dfsAll(_, _, _)
dfs(models, st, m) ==
    IF m \in DOMAIN models /\ m \notin st.seen
    THEN LET entered == [seen |-> st.seen \cup {m}, ordering |-> st.ordering]
             after == dfsAll(models, entered, Refs(models[m]))
         IN  [seen |-> after.seen, ordering |-> Append(after.ordering, m)]
    ELSE st

dfsAll(models, st, ms) ==
    IF ms = <<>> THEN st ELSE dfsAll(models, dfs(models, st, Head(ms)), Tail(ms))

sort_models(models) ==
    dfsAll(models, [seen |-> {}, ordering |-> <<>>],
           SelectSeq(NameOrder, LAMBDA n : n \in DOMAIN models)).ordering

\* Lines 207-215: the key order of models_map1 / models_map2.
MapOrder(models, rev) ==
    IF rev THEN Reversed(sort_models(models)) ELSE sort_models(models)

\* NamesNotIn with the `if m not in ...` filter left out.
NamesNotIn_unfiltered(order, other) == order

\* Line 225 and line 229: the names of one map that are not in the other.
NamesNotIn(order, other) == SelectSeq(order, LAMBDA n : n \notin DOMAIN other)

\* Lines 219-221: the names the first loop calls diff_one on.
NamesAlsoIn(order, other) == SelectSeq(order, LAMBDA n : n \in DOMAIN other)

\* The classes find_field_type is called on when a model's columns are rendered.
Resolutions(fields) == {<<f.cls, find_field_type(f)>> : f \in fields}
FieldsOf(model) == {model.fields[c] : c \in DOMAIN model.fields}

(***************************************************************************)
(* The schemas diff_many is called on.                                     *)
(***************************************************************************)
NoDefault == [kind |-> "none", value |-> 0]
Literal(v) == [kind |-> "literal", value |-> v]
Callable == [kind |-> "callable", value |-> 0]

Fld(cls, null, index, unique, default) ==
    [cls |-> cls, null |-> null, index |-> index, unique |-> unique,
     default |-> default, max_length |-> IF cls = "CharField" THEN 255 ELSE 0,
     rel |-> NONE, on_delete |-> NONE, on_update |-> NONE]

\* ForeignKeyField(rel, on_delete=...): indexed, as the library makes it.
FK(rel, on_delete) ==
    [Fld("ForeignKeyField", FALSE, TRUE, FALSE, NoDefault)
        EXCEPT !.rel = rel, !.on_delete = on_delete]

\* No such column / no such table.
Absent == Fld("<absent>", FALSE, FALSE, FALSE, NoDefault)

MkModel(name, cols, indexes) ==
    [name |-> name,
     fields |-> [c \in {c \in DOMAIN cols : cols[c] # Absent} |-> cols[c]],
     indexes |-> indexes]

NoModel == MkModel("<absent>", <<>>, {})

MkSchema(tables) == [t \in {t \in DOMAIN tables : tables[t] # NoModel} |-> tables[t]]

\* Schemas of customers and orders, each with its id and at most one
\* foreign key to either table.
TableNames == {"customers", "orders"}
IdField == Fld("AutoField", FALSE, FALSE, FALSE, NoDefault)
RefFields == {Absent} \cup {FK(t, od) : t \in TableNames, od \in {NONE, "CASCADE"}}
TableVersions(t) ==
    {NoModel} \cup {MkModel(t, [id |-> IdField, ref |-> r], {}) : r \in RefFields}
LinkedSchemas ==
    {MkSchema([customers |-> c, orders |-> o]) :
        c \in TableVersions("customers"), o \in TableVersions("orders")}

\* Versions of the one table users: its columns.
EmailFields ==
    {Fld(c, n, i, u, d) : c \in {"CharField", "IntegerField"},
        n \in BOOLEAN, i \in BOOLEAN, u \in BOOLEAN,
        d \in {NoDefault} \cup {Literal(v) : v \in 1..MaxDefault}}
EmailSchemas ==
    {MkSchema([users |-> MkModel("users", [email |-> e], {})]) :
        e \in EmailFields \cup {Absent}}

\* Versions of the one table users with two columns, fewer of each.
AgeFields ==
    {Fld("IntegerField", FALSE, FALSE, FALSE, NoDefault),
     Fld("IntegerField", FALSE, FALSE, FALSE, Literal(MaxDefault)),
     Fld("AgeField", TRUE, TRUE, FALSE, Callable),
     Fld("DuckField", FALSE, FALSE, FALSE, NoDefault)}
FewEmailFields ==
    {Fld("CharField", FALSE, FALSE, FALSE, NoDefault),
     Fld("CharField", TRUE, TRUE, FALSE, Literal(MaxDefault)),
     Fld("CharField", FALSE, FALSE, TRUE, NoDefault),
     Fld("IntegerField", FALSE, FALSE, FALSE, NoDefault)}
ColumnSchemas ==
    {MkSchema([users |-> MkModel("users", [age |-> a, email |-> e], {})]) :
        a \in AgeFields \cup {Absent}, e \in FewEmailFields \cup {Absent}}

\* Versions of the one table users: its _meta.indexes.
IndexUniverse ==
    {<<(<<"age", "email">>), FALSE>>, <<(<<"age", "email">>), TRUE>>,
     <<(<<"email">>), TRUE>>}
IndexSchemas ==
    {MkSchema([users |-> MkModel("users", [age |-> a, email |-> e, name |-> n], ix)]) :
        a \in {Absent, Fld("IntegerField", FALSE, FALSE, FALSE, NoDefault)},
        e \in {Absent, Fld("CharField", FALSE, FALSE, FALSE, NoDefault)},
        n \in {Fld("CharField", FALSE, FALSE, FALSE, NoDefault),
               Fld("CharField", TRUE, FALSE, TRUE, Literal(MaxDefault))},
        ix \in SUBSET IndexUniverse}

Inputs ==
    {[models1 |-> s1, models2 |-> s2, reverse |-> r] :
        s1 \in LinkedSchemas, s2 \in LinkedSchemas, r \in BOOLEAN}
    \cup {[models1 |-> s1, models2 |-> s2, reverse |-> FALSE] :
        s1 \in EmailSchemas, s2 \in EmailSchemas}
    \cup {[models1 |-> s1, models2 |-> s2, reverse |-> FALSE] :
        s1 \in ColumnSchemas, s2 \in ColumnSchemas}
    \cup {[models1 |-> s1, models2 |-> s2, reverse |-> FALSE] :
        s1 \in IndexSchemas, s2 \in IndexSchemas}

(***************************************************************************)
(* The state: the arguments of diff_many, its locals, and what the calls   *)
(* made so far returned.                                                   *)
(***************************************************************************)
VARIABLES
    models1,    \* the new schema
    models2,    \* the old schema
    reverse,    \* the reverse argument
    pc,         \* where diff_many is
    order1,     \* the keys of models_map1, in order
    order2,     \* the keys of models_map2, in order
    todo,       \* the names the first loop has still to visit
    changes,    \* the list being built
    results,    \* what each finished call returned
    resolved    \* <<class, find_field_type's result>> of the calls made

vars == <<models1, models2, reverse, pc, order1, order2, todo, changes, results, resolved>>

Init ==
    /\ \E inp \in Inputs :
        /\ models1 = inp.models1
        /\ models2 = inp.models2
        /\ reverse = inp.reverse
    /\ pc = "call"
    /\ order1 = <<>>
    /\ order2 = <<>>
    /\ todo = <<>>
    /\ changes = <<>>
    /\ results = <<>>
    /\ resolved = {}

\* Lines 207-217: sort both lists, reverse them, build the two maps.
SortModels ==
    /\ pc = "call"
    /\ order1' = MapOrder(models1, reverse)
    /\ order2' = MapOrder(models2, reverse)
    /\ todo' = NamesAlsoIn(MapOrder(models1, reverse), models2)
    /\ changes' = <<>>
    /\ pc' = "diff"
    /\ UNCHANGED <<models1, models2, reverse, results, resolved>>

\* Lines 219-222: one pass of the first loop, diff_one on the next table
\* that both maps hold.
DiffOne ==
    /\ pc = "diff"
    /\ todo # <<>>
    /\ LET model1 == models1[Head(todo)]
           model2 == models2[Head(todo)]
       IN  /\ \E oAdd \in Orders(AddedNames(model1, model2)),
                oDrop \in Orders(DroppedNames(model1, model2)),
                oBoth \in Orders(SharedNames(model1, model2)),
                oIdxDrop \in Orders(IndexesToDrop(model1, model2)),
                oIdxAdd \in Orders(IndexesToAdd(model1, model2)) :
                 changes' = changes \o
                     diff_one(model1, model2, oAdd, oDrop, oBoth, oIdxDrop, oIdxAdd)
           /\ resolved' = resolved
                \cup Resolutions({model1.fields[c] : c \in SharedNames(model1, model2)})
                \cup Resolutions({model2.fields[c] : c \in SharedNames(model1, model2)})
                \cup Resolutions({model1.fields[c] : c \in AddedNames(model1, model2)})
    /\ todo' = Tail(todo)
    /\ UNCHANGED <<models1, models2, reverse, pc, order1, order2, results>>

\* Lines 224-226: create the models that only models_map1 holds.
AddModels ==
    /\ pc = "diff"
    /\ todo = <<>>
    /\ LET names == NamesNotIn(order1, models2)
       IN  /\ changes' = changes \o [i \in 1..Len(names) |-> create_model(models1[names[i]])]
           /\ resolved' = resolved
                \cup UNION {Resolutions(FieldsOf(models1[names[i]])) : i \in 1..Len(names)}
    /\ pc' = "remove"
    /\ UNCHANGED <<models1, models2, reverse, order1, order2, todo, results>>

\* Lines 228-230: remove the models that only models_map2 holds.
RemoveModels ==
    /\ pc = "remove"
    /\ LET names == NamesNotIn(order2, models1)
       IN  changes' = changes \o [i \in 1..Len(names) |-> remove_model(models2[names[i]])]
    /\ pc' = "return"
    /\ UNCHANGED <<models1, models2, reverse, order1, order2, todo, results, resolved>>

\* Line 232: return changes.
Return ==
    /\ pc = "return"
    /\ results' = Append(results, changes)
    /\ pc' = "done"
    /\ UNCHANGED <<models1, models2, reverse, order1, order2, todo, changes, resolved>>

\* diff_many is called again on the same schemas, as a later run of the
\* program does.
CallAgain ==
    /\ pc = "done"
    /\ Len(results) < MaxRuns
    /\ pc' = "call"
    /\ order1' = <<>>
    /\ order2' = <<>>
    /\ todo' = <<>>
    /\ changes' = <<>>
    /\ UNCHANGED <<models1, models2, reverse, results, resolved>>

Next == SortModels \/ DiffOne \/ AddModels \/ RemoveModels \/ Return \/ CallAgain

Spec == Init /\ [][Next]_vars

(***************************************************************************)
(* What the claims speak of.                                               *)
(***************************************************************************)
Returned == pc = "done"
LastResult == results[Len(results)]

\* The tables both schemas hold, and the columns both versions of one hold.
SharedTables == DOMAIN models1 \cap DOMAIN models2
SharedColumns(t) == SharedNames(models1[t], models2[t])

\* Where the list holds operation op on table t.
PositionsOf(ops, op, t) == {i \in 1..Len(ops) : ops[i].op = op /\ ops[i].table = t}

\* The index state of a column: (indexed and not unique, unique).
IndexState(field) == <<field.index /\ ~field.unique, field.unique>>
IndexedOrUnique(field) == IndexState(field)[1] \/ IndexState(field)[2]

\* The per-column index operations of a list on column c of table t.
ColumnIndexOps(ops, t, c) ==
    SelectSeq(ops, LAMBDA o : o.table = t /\ o.op \in {"add_index", "drop_index"}
                              /\ o.names = <<c>>)
\* The SetNullable operations of a list on column c of table t.
NullableOps(ops, t, c) ==
    SelectSeq(ops, LAMBDA o : o.table = t /\ o.op \in {"add_not_null", "drop_not_null"}
                              /\ o.names = <<c>>)

\* T1 has a foreign key to T2 in schema S.
RefersTo(S, t1, t2) ==
    \E c \in DOMAIN S[t1].fields :
        IsInstance(S[t1].fields[c], "ForeignKeyField") /\ S[t1].fields[c].rel = t2

\* A foreign-key cycle through two or more distinct tables of S.
RECURSIVE Reaches(_, _, _, _)
Reaches(S, from, to, steps) ==
    \/ RefersTo(S, from, to)
    \/ /\ steps > 0
       /\ \E mid \in DOMAIN S \ {from} :
            RefersTo(S, from, mid) /\ Reaches(S, mid, to, steps - 1)
HasCycle(S) ==
    \E t1, t2 \in DOMAIN S :
        t1 # t2 /\ Reaches(S, t1, t2, Cardinality(DOMAIN S))
                /\ Reaches(S, t2, t1, Cardinality(DOMAIN S))

(***************************************************************************)
(* C1.  Reflexivity: diffing a schema against itself returns the empty     *)
(* list, with reverse false and with reverse true.  The list is empty all  *)
(* along the call, and so is what every call returned.                     *)
(***************************************************************************)
C1_Reflexive ==
    models1 = models2 =>
        /\ changes = <<>>
        /\ \A i \in 1..Len(results) : results[i] = <<>>

\* A call with reverse set has returned for a schema of two tables, one
\* referring to the other, diffed against itself.
C1_Witness ==
    /\ Returned
    /\ models1 = models2
    /\ reverse
    /\ DOMAIN models1 = TableNames
    /\ RefersTo(models1, "orders", "customers")
    /\ results = <<(<<>>)>>

(***************************************************************************)
(* C4.  Within the operations diff_one emits for one table the kinds come  *)
(* in the fixed order AddColumns, RemoveColumns, ChangeColumns, the        *)
(* SetNullable operations, the per-column index operations, the compound   *)
(* DropIndex operations, the compound AddIndex operations: none of a later *)
(* kind precedes one of an earlier kind, and the first three kinds appear  *)
(* at most once.                                                           *)
(***************************************************************************)
KindRank(o) ==
    CASE o.op = "add_fields" -> 1
      [] o.op = "remove_fields" -> 2
      [] o.op = "change_fields" -> 3
      [] o.op \in {"add_not_null", "drop_not_null"} -> 4
      [] o.op \in {"add_index", "drop_index"} /\ Len(o.names) = 1 -> 5
      [] o.op = "drop_index" /\ Len(o.names) > 1 -> 6
      [] o.op = "add_index" /\ Len(o.names) > 1 -> 7
      [] OTHER -> 0

TableDiff(ops, t) == SelectSeq(ops, LAMBDA o : o.table = t /\ KindRank(o) > 0)

InFixedOrder(ops) ==
    /\ \A i, j \in 1..Len(ops) : i < j => KindRank(ops[i]) <= KindRank(ops[j])
    /\ \A i, j \in 1..Len(ops) :
          KindRank(ops[i]) = KindRank(ops[j]) /\ KindRank(ops[i]) <= 3 => i = j

C4_FixedOrder == \A t \in SharedTables : InFixedOrder(TableDiff(changes, t))

\* One table's diff holds all seven kinds.
C4_Witness ==
    /\ Returned
    /\ \E t \in SharedTables :
          \A k \in 1..7 : \E i \in 1..Len(changes) :
              changes[i].table = t /\ KindRank(changes[i]) = k

(***************************************************************************)
(* C6.  Determinism: every call of diff_many on the same pair of schemas   *)
(* returns the same list of operations.                                    *)
(***************************************************************************)
C6_Deterministic == \A i, j \in 1..Len(results) : results[i] = results[j]

(***************************************************************************)
(* C2.  Completeness of the diff, in the consequence the claim spells out: *)
(* whenever the two versions of a shared column differ in a comparable     *)
(* attribute (canonical type, literal default, max length, on-delete /     *)
(* on-update, nullability, index state), the diff of their table is not    *)
(* empty.                                                                  *)
(***************************************************************************)
Comparable(field) ==
    [type |-> find_field_type(field),
     default |-> IF field.default.kind = "literal" THEN <<field.default.value>> ELSE <<>>,
     max_length |-> field.max_length,
     on_delete |-> field.on_delete,
     on_update |-> field.on_update,
     null |-> field.null,
     index |-> IndexState(field)]

C2_Complete ==
    Returned =>
        \A t \in SharedTables : \A c \in SharedColumns(t) :
            Comparable(models1[t].fields[c]) # Comparable(models2[t].fields[c])
                => \E i \in 1..Len(LastResult) : LastResult[i].table = t

(***************************************************************************)
(* C3.  Dependency order of whole-table operations: when T1 has a foreign  *)
(* key to another table T2 and both are only in the new schema, a call     *)
(* with reverse false returns CreateTable(T2) before CreateTable(T1); when *)
(* both are only in the old schema, a call with reverse true returns       *)
(* RemoveTable(T1) before RemoveTable(T2).                                 *)
(***************************************************************************)
Precedes(ops, op, ta, tb) ==
    \E i \in PositionsOf(ops, op, ta) : \E j \in PositionsOf(ops, op, tb) : i < j

C3_DependencyOrder ==
    Returned =>
        /\ ~reverse =>
             \A t1, t2 \in DOMAIN models1 \ DOMAIN models2 :
                 t1 # t2 /\ RefersTo(models1, t1, t2)
                     => Precedes(LastResult, "create_model", t2, t1)
        /\ reverse =>
             \A t1, t2 \in DOMAIN models2 \ DOMAIN models1 :
                 t1 # t2 /\ RefersTo(models2, t1, t2)
                     => Precedes(LastResult, "remove_model", t1, t2)

\* The order does hold when neither schema has a foreign-key cycle: C3 fails
\* only on the schemas that C5 says are rejected.
DependencyOrderAcyclic ==
    ~HasCycle(models1) /\ ~HasCycle(models2) => C3_DependencyOrder

(***************************************************************************)
(* C5.  A foreign-key cycle through two or more distinct tables of either  *)
(* schema makes diff_many fail: the call gets no further than its start    *)
(* and nothing is ever returned.  (A table that only refers to itself is   *)
(* no such cycle.)                                                         *)
(***************************************************************************)
C5_CycleFails ==
    HasCycle(models1) \/ HasCycle(models2) =>
        pc = "call" /\ changes = <<>> /\ results = <<>>

(***************************************************************************)
(* C7.  Scenario C as stated: the old schema holds orders only, the new    *)
(* one orders and customers, the new orders referring to customers; the    *)
(* list returned holds CreateTable(customers) before CreateTable(orders).  *)
(***************************************************************************)
ScenarioC ==
    /\ DOMAIN models2 = {"orders"}
    /\ DOMAIN models1 = {"customers", "orders"}
    /\ RefersTo(models1, "orders", "customers")

C7_CreateBoth ==
    ScenarioC /\ Returned => Precedes(LastResult, "create_model", "customers", "orders")

(***************************************************************************)
(* C7, amended.  In scenario C the list returned holds exactly one         *)
(* CreateTable, that of customers, and none of orders: orders is in both   *)
(* schemas, so it is diffed, and every operation on orders precedes        *)
(* CreateTable(customers).                                                 *)
(***************************************************************************)
C7_CreateCustomersOnly ==
    ScenarioC /\ Returned =>
        /\ PositionsOf(LastResult, "create_model", "orders") = {}
        /\ Cardinality(PositionsOf(LastResult, "create_model", "customers")) = 1
        /\ \A i \in 1..Len(LastResult) : \A p \in PositionsOf(LastResult, "create_model", "customers") :
              LastResult[i].table = "orders" => i < p

\* Scenario C with the old orders holding no foreign key: the call returns
\* AddColumns on orders, then CreateTable(customers).
C7_Witness ==
    /\ ScenarioC
    /\ Returned
    /\ ~reverse
    /\ "ref" \notin DOMAIN models2["orders"].fields
    /\ Len(LastResult) = 2
    /\ LastResult[1].op = "add_fields" /\ LastResult[1].table = "orders"
    /\ LastResult[2].op = "create_model" /\ LastResult[2].table = "customers"

(***************************************************************************)
(* C8.  The per-column index rule, as stated: for a column of both         *)
(* versions whose index state differs, when the new state is indexed or    *)
(* unique the diff holds DropIndex exactly when the old state was indexed  *)
(* or unique, then AddIndex with the new unique flag; when the new state   *)
(* is neither, DropIndex only; when the states are equal, no index         *)
(* operation on the column.                                                *)
(***************************************************************************)
IndexRule(new, old) ==
    IF IndexState(new) = IndexState(old) THEN <<>>
    ELSE IF IndexedOrUnique(new)
         THEN (IF IndexedOrUnique(old) THEN <<(<<"drop_index", FALSE>>)>> ELSE <<>>)
              \o <<(<<"add_index", new.unique>>)>>
         ELSE <<(<<"drop_index", FALSE>>)>>

Brief(ops) == [i \in 1..Len(ops) |-> <<ops[i].op, ops[i].unique>>]

SameType(t, c) ==
    find_field_type(models1[t].fields[c]) = find_field_type(models2[t].fields[c])

C8_IndexRule ==
    Returned =>
        \A t \in SharedTables : \A c \in SharedColumns(t) :
            Brief(ColumnIndexOps(LastResult, t, c))
                = IndexRule(models1[t].fields[c], models2[t].fields[c])

(***************************************************************************)
(* The rule does hold for every column of both versions whose canonical    *)
(* type is the same in both: C8 fails only where the canonical types       *)
(* differ, where compare_fields reports the type alone and the column gets *)
(* no index operation.                                                     *)
(***************************************************************************)
IndexRuleSameType ==
    Returned =>
        \A t \in SharedTables : \A c \in SharedColumns(t) :
            SameType(t, c) =>
                Brief(ColumnIndexOps(LastResult, t, c))
                    = IndexRule(models1[t].fields[c], models2[t].fields[c])

\* Scenario A: a unique character column becomes indexed and not unique;
\* the call returns drop_index, then add_index(unique=False).
ScenarioA ==
    /\ Returned
    /\ \E t \in SharedTables : \E c \in SharedColumns(t) :
          /\ SameType(t, c)
          /\ find_field_type(models1[t].fields[c]) = "CharField"
          /\ models2[t].fields[c].unique /\ ~models1[t].fields[c].unique
          /\ models1[t].fields[c].index
          /\ Brief(ColumnIndexOps(LastResult, t, c))
                = <<(<<"drop_index", FALSE>>), <<"add_index", FALSE>> >>

(***************************************************************************)
(* C9.  Nullability and index state are diffed on their own, as stated:    *)
(* for every column of both versions whose nullable flag differs the diff  *)
(* holds exactly one SetNullable on the column (drop_not_null when the new *)
(* column is nullable, add_not_null when not), and a differing index state *)
(* gives an index operation on the column, whatever else differs, the      *)
(* canonical type included.                                                *)
(***************************************************************************)
NullRule(t, c) ==
    LET new == models1[t].fields[c]
        old == models2[t].fields[c]
        got == NullableOps(LastResult, t, c)
    IN  /\ new.null # old.null =>
              /\ Len(got) = 1
              /\ got[1].op = IF new.null THEN "drop_not_null" ELSE "add_not_null"
        /\ IndexState(new) # IndexState(old) => ColumnIndexOps(LastResult, t, c) # <<>>

C9_NullAndIndexAlways ==
    Returned => \A t \in SharedTables : \A c \in SharedColumns(t) : NullRule(t, c)

(***************************************************************************)
(* The same does hold for every column of both versions whose canonical    *)
(* type is the same in both, whether or not its other comparable           *)
(* attributes differ.                                                      *)
(***************************************************************************)
NullAndIndexSameType ==
    Returned =>
        \A t \in SharedTables : \A c \in SharedColumns(t) :
            SameType(t, c) => NullRule(t, c)

\* A column whose nullable flag, index state and literal default all differ
\* gets its SetNullable and an index operation beside ChangeColumns.
NullIndexAndDefaultDiffer ==
    /\ Returned
    /\ \E t \in SharedTables : \E c \in SharedColumns(t) :
          /\ SameType(t, c)
          /\ models1[t].fields[c].null # models2[t].fields[c].null
          /\ IndexState(models1[t].fields[c]) # IndexState(models2[t].fields[c])
          /\ Comparable(models1[t].fields[c]).default # Comparable(models2[t].fields[c]).default
          /\ PositionsOf(LastResult, "change_fields", t) # {}
          /\ Len(NullableOps(LastResult, t, c)) = 1
          /\ ColumnIndexOps(LastResult, t, c) # <<>>

(***************************************************************************)
(* C10.  Canonical type resolution: a class of a registered module is      *)
(* returned as it is; otherwise the first class of its mro from a          *)
(* registered module is returned; and a class with no such ancestor is     *)
(* never returned, the call fails instead.                                 *)
(***************************************************************************)
C10_Resolves ==
    \A p \in resolved :
        LET cls == p[1]
            mro == ClassMro(cls)
            registered == {i \in 1..Len(mro) : ClassModule(mro[i]) \in PW_MODULES}
        IN  /\ ClassModule(cls) \in PW_MODULES => p[2] = cls
            /\ ClassModule(cls) \notin PW_MODULES /\ registered # {} =>
                  \E i \in registered : p[2] = mro[i] /\ \A j \in registered : i <= j
            /\ ClassModule(p[2]) \in PW_MODULES

====
